---------------------------- MODULE Spec2Model ----------------------------
(***************************************************************************)
(* Model of remove_old_files.py: one sweep of a directory that deletes the *)
(* files older than a cutoff, with the file system, the git subprocess and *)
(* a concurrent external remover as the environment.                       *)
(***************************************************************************)
EXTENDS Integers, Sequences, FiniteSets, TLC

(***************************************************************************)
(* Bounds of the model.                                                    *)
(***************************************************************************)
\* how many files the external actor may remove while the program runs
MaxExternal == 1
\* how many seconds the clock may advance between two runs of the sweep
MaxTick == 1
\* how many times the sweep is run over the directory
MaxRuns == 2

(***************************************************************************)
(* Program constants.                                                      *)
(***************************************************************************)
\* seconds per day, the factor in `cutoff = now - days * 86400`
DAY == 86400
\* argparse default of --days
DefaultDays == 30

(***************************************************************************)
(* Paths.  A path is a sequence of segments; os.sep is the sequence        *)
(* boundary.  The names the model uses, and which of them start with '.'.  *)
(***************************************************************************)
DotNames == {".", "..", ".env", ".hidden"}

\* str.startswith('.') over the names of the model
StartsWithDot(name) == name \in DotNames

\* os.path.join(a, b) for a relative b
Join(a, b) == a \o b

RECURSIVE NormFrom(_, _)
\* os.path.normpath: drop "." segments, resolve "x/.." pairs left to right
NormFrom(done, rest) ==
    IF rest = <<>> THEN done
    ELSE LET s == Head(rest) IN
         IF s = "." THEN NormFrom(done, Tail(rest))
         ELSE IF s = ".." /\ done # <<>> /\ done[Len(done)] # ".."
              THEN NormFrom(SubSeq(done, 1, Len(done) - 1), Tail(rest))
              ELSE NormFrom(Append(done, s), Tail(rest))

normpath(p) == NormFrom(<<>>, p)

IsPrefix(a, b) == Len(a) <= Len(b) /\ SubSeq(b, 1, Len(a)) = a

\* os.path.relpath(p, start) for a p below start: both are made absolute and
\* normalised, then the common prefix is dropped
relpath(p, start) ==
    LET np == normpath(p)
        ns == normpath(start)
    IN IF IsPrefix(ns, np) THEN SubSeq(np, Len(ns) + 1, Len(np))
       ELSE <<"..">> \o np

(***************************************************************************)
(* The directory tree.  Keys are paths relative to the root directory.     *)
(***************************************************************************)
RootDir == <<>>
SubDir == <<"sub">>
HiddenDir == <<"sub", ".hidden">>
AllDirs == {RootDir, SubDir, HiddenDir}

AllFiles ==
    { <<"a.txt">>, <<"b.txt">>, <<"README.md">>, <<"remove_old_files.py">>,
      <<".env">>, <<"sub", "old2.txt">>, <<"sub", ".hidden", "old.txt">> }

Parent(key) == SubSeq(key, 1, Len(key) - 1)
BaseName(key) == key[Len(key)]

\* the order in which a directory listing returns its entries: one of the
\* two orders of this fixed sequence
EntryOrder ==
    << <<"README.md">>, <<"a.txt">>, <<".env">>, <<"sub">>, <<"b.txt">>,
       <<"remove_old_files.py">>, <<"sub", "old2.txt">>, <<"sub", ".hidden">>,
       <<"sub", ".hidden", "old.txt">> >>

RECURSIVE Reverse(_)
Reverse(s) == IF s = <<>> THEN <<>> ELSE Append(Reverse(Tail(s)), Head(s))

RECURSIVE Filter(_, _)
Filter(s, keep) ==
    IF s = <<>> THEN <<>>
    ELSE IF Head(s) \in keep THEN <<Head(s)>> \o Filter(Tail(s), keep)
         ELSE Filter(Tail(s), keep)


(***************************************************************************)
(* State.                                                                  *)
(***************************************************************************)
VARIABLES
    \* ---- the arguments of remove_old_files, fixed for the whole behaviour
    \* (verbose only adds lines to the output and is left out)
    directory,          \* the root, as the caller spelt it
    exclude_filenames,  \* the names to exclude, as the caller spelt them
    days, dry_run, recursive, include_hidden, age_source,
    \* ---- the environment
    rootOK,             \* the root exists and is a directory
    exists0,            \* the regular files present when the program started
    exists,             \* the regular files now present, by key
    stat,               \* key -> [mtime, atime, ctime] of the file
    git,                \* key -> what `git log -1 --format=%ct -- path` does
    mode,               \* directory key -> its permission bits
    order,              \* the order directory listings come in
    clock,              \* time.time()
    ext_removed,        \* the keys the external actor has removed
    \* ---- the locals of remove_old_files and of the iter_files generator
    pc, now, cutoff, excluded, removed, considered, skipped_excluded,
    pending,            \* the entries the generator has listed and not visited
    stack,              \* the directories os.walk has still to visit
    file_path, file_ts,
    \* ---- what the run has printed, and what happened in it
    out_would,          \* paths printed as "Would remove:"
    out_removed,        \* paths printed as "Removed:"
    out_failed,         \* paths printed as "Could not remove"
    summary,            \* the fields of the "Done." line, once printed
    yielded,            \* the paths the generator has produced in this run
    resolved,           \* the get_timestamp calls of this run and their results
    run,                \* the number of the current run
    prev                \* the previous run's cutoff and "Would remove" set

config == <<directory, exclude_filenames, days, dry_run, recursive,
            include_hidden, age_source>>
env == <<rootOK, exists0, exists, stat, git, mode, order, clock, ext_removed>>
locals == <<pc, now, cutoff, excluded, removed, considered, skipped_excluded,
            pending, stack, file_path, file_ts>>
output == <<out_would, out_removed, out_failed, summary, yielded, resolved>>
vars == <<config, env, locals, output, run, prev>>

(***************************************************************************)
(* Timestamp Resolver: git_last_commit_timestamp and get_timestamp.        *)
(***************************************************************************)
\* what a call leaves behind: a value, None, or an exception
None == [kind |-> "None", val |-> 0]
Some(v) == [kind |-> "int", val |-> v]
Raised == [kind |-> "raise", val |-> 0]

\* str.strip(): output made of white space only strips to the empty string
strip(text) == IF text.kind = "blank" THEN [kind |-> "empty", num |-> 0] ELSE text

\* git_last_commit_timestamp without the try/except of lines 12 and 26
git_lookup_unguarded(proc) ==
    IF proc.raised THEN Raised
    ELSE IF proc.returncode # 0 THEN None
    ELSE LET value == strip(proc.stdout) IN
         IF value.kind = "empty" THEN None
         ELSE IF value.kind = "digits" THEN Some(value.num)
         ELSE Raised

\* git_last_commit_timestamp, given what subprocess.run did: it raised, or
\* returned a returncode and a stdout
git_last_commit_timestamp(proc) ==
    IF proc.raised THEN None                        \* except Exception
    ELSE IF proc.returncode # 0 THEN None
    ELSE LET value == strip(proc.stdout) IN
         IF value.kind = "empty" THEN None          \* if not value
         ELSE IF value.kind = "digits" THEN Some(value.num)
         ELSE None                                  \* int() raised ValueError

HasBit(d, bit) == bit \in mode[d]

RECURSIVE Ancestors(_)
\* the directories a path lookup of `key` walks through, the root included
Ancestors(key) ==
    IF key = <<>> THEN {}
    ELSE {Parent(key)} \cup Ancestors(Parent(key))

\* the key of the file system entry a path of the program names
KeyOf(p) == relpath(p, directory)

\* os.stat(path): the times, or the OSError it raises
os_stat(p) ==
    LET key == KeyOf(p) IN
    IF \E d \in Ancestors(key) : ~HasBit(d, "x")
    THEN [kind |-> "PermissionError", times |-> [mtime |-> 0, atime |-> 0, ctime |-> 0]]
    ELSE IF ~rootOK \/ key \notin exists
    THEN [kind |-> "FileNotFoundError", times |-> [mtime |-> 0, atime |-> 0, ctime |-> 0]]
    ELSE [kind |-> "ok", times |-> stat[key]]

Raise(kind) == [kind |-> kind, ts |-> 0]
Return(ts) == [kind |-> "ts", ts |-> ts]

\* os.path.getmtime / getatime / getctime
getxtime(p, field) ==
    LET st == os_stat(p) IN
    IF st.kind = "ok" THEN Return(st.times[field]) ELSE Raise(st.kind)

\* get_timestamp: the timestamp, or the exception that leaves it
get_timestamp(p, source) ==
    IF source = "mtime" THEN getxtime(p, "mtime")
    ELSE IF source = "atime" THEN getxtime(p, "atime")
    ELSE IF source = "ctime" THEN getxtime(p, "ctime")
    ELSE IF source = "git" THEN
        LET ts == git_last_commit_timestamp(git[KeyOf(p)]) IN
        IF ts.kind = "raise" THEN Raise("Exception")
        ELSE IF ts.kind = "int" THEN Return(ts.val)     \* ts is not None
        ELSE getxtime(p, "mtime")
    ELSE getxtime(p, "mtime")

(***************************************************************************)
(* File Enumerator: iter_files.                                            *)
(***************************************************************************)
\* is_hidden: some segment of the path relative to the root starts with '.'
is_hidden(p) ==
    LET rel == relpath(p, directory) IN
    \E i \in 1..Len(rel) : StartsWithDot(rel[i])

\* os.path.isfile(p): stat succeeds and names a regular file
isfile(p) == os_stat(p).kind = "ok"

Listing == IF order = "fwd" THEN EntryOrder ELSE Reverse(EntryOrder)

RECURSIVE PathsOf(_)
PathsOf(keys) ==
    IF keys = <<>> THEN <<>>
    ELSE <<Join(directory, Head(keys))>> \o PathsOf(Tail(keys))

\* a directory can be listed: it exists, is reachable and readable
CanList(d) ==
    /\ rootOK
    /\ \A a \in Ancestors(d) : HasBit(a, "x")
    /\ HasBit(d, "r")

\* the regular files of directory d, as listed now
FilesIn(d) == {k \in exists : Parent(k) = d}
\* the subdirectories of directory d
DirsIn(d) == {k \in AllDirs : k # <<>> /\ Parent(k) = d}

\* a listing of the root that also holds the files below it
listdir_deep == PathsOf(Filter(Listing, exists \cup DirsIn(RootDir)))

\* os.listdir(directory): the names of all entries, joined to the directory
listdir_paths == PathsOf(Filter(Listing, FilesIn(RootDir) \cup DirsIn(RootDir)))

\* PrunedDirs without the pruning of line 62
PrunedDirsNone(dirs) == dirs

\* line 62: the directories os.walk still descends into
PrunedDirs(dirs) ==
    IF include_hidden THEN dirs
    ELSE {d \in dirs : ~StartsWithDot(BaseName(d))}

\* lines 55 and 65: the generator passes over a hidden path
SkipsHidden(p) == ~include_hidden /\ is_hidden(p)

(***************************************************************************)
(* The inputs: how the sweep is invoked, and the worlds it runs in.        *)
(***************************************************************************)
\* main(): defaults = [script_name, "README.md"]
Defaults == { <<"remove_old_files.py">>, <<"README.md">> }

\* the clock when the program starts, and a time `d` days before it
T0 == 100 * DAY
Ago(d) == T0 - d * DAY

Times(m, a, c) == [mtime |-> m, atime |-> a, ctime |-> c]

\* the tree of the spec's scenarios: everything 40 days old but b.txt
ScenarioStat ==
    ( <<"a.txt">> :> Times(Ago(40), Ago(1), Ago(40)) ) @@
    ( <<"b.txt">> :> Times(Ago(5), Ago(1), Ago(5)) ) @@
    ( <<"README.md">> :> Times(Ago(40), Ago(40), Ago(40)) ) @@
    ( <<"remove_old_files.py">> :> Times(Ago(40), Ago(1), Ago(40)) ) @@
    ( <<".env">> :> Times(Ago(40), Ago(40), Ago(40)) ) @@
    ( <<"sub", "old2.txt">> :> Times(Ago(40), Ago(40), Ago(5)) ) @@
    ( <<"sub", ".hidden", "old.txt">> :> Times(Ago(40), Ago(40), Ago(40)) )

\* a tree with files exactly at, and one second before, the 30 day cutoff
BoundaryStat ==
    ( <<"a.txt">> :> Times(Ago(30), Ago(30) - 1, Ago(30)) ) @@
    ( <<"b.txt">> :> Times(Ago(40), Ago(5), Ago(40)) ) @@
    ( <<"README.md">> :> Times(Ago(5), Ago(5), Ago(5)) ) @@
    ( <<"remove_old_files.py">> :> Times(Ago(5), Ago(5), Ago(5)) ) @@
    ( <<".env">> :> Times(Ago(5), Ago(40), Ago(5)) ) @@
    ( <<"sub", "old2.txt">> :> Times(Ago(30) - 1, Ago(5), Ago(30) - 1) ) @@
    ( <<"sub", ".hidden", "old.txt">> :> Times(Ago(5), Ago(5), Ago(40)) )

RootFour == { <<"a.txt">>, <<"b.txt">>, <<"README.md">>, <<"remove_old_files.py">> }

RWX == {"r", "w", "x"}
AllRWX == [d \in AllDirs |-> RWX]
\* sub is read-only: its entries cannot be removed
SubNoWrite == [AllRWX EXCEPT ![SubDir] = {"r", "x"}]
\* sub can be listed but not searched: its entries cannot be stat'ed
SubNoSearch == [AllRWX EXCEPT ![SubDir] = {"r"}]
\* the root is read-only
RootNoWrite == [AllRWX EXCEPT ![RootDir] = {"r", "x"}]

Worlds ==
    { [exists |-> RootFour, stat |-> ScenarioStat, mode |-> AllRWX, order |-> "fwd"],
      [exists |-> AllFiles, stat |-> ScenarioStat, mode |-> AllRWX, order |-> "rev"],
      [exists |-> AllFiles, stat |-> BoundaryStat, mode |-> AllRWX, order |-> "fwd"],
      [exists |-> AllFiles, stat |-> ScenarioStat, mode |-> SubNoWrite, order |-> "fwd"],
      [exists |-> AllFiles, stat |-> ScenarioStat, mode |-> SubNoSearch, order |-> "rev"],
      [exists |-> AllFiles, stat |-> BoundaryStat, mode |-> RootNoWrite, order |-> "rev"] }

\* what subprocess.run(["git", "log", "-1", "--format=%ct", "--", path]) does
Proc(rc, kind, num) ==
    [raised |-> FALSE, returncode |-> rc, stdout |-> [kind |-> kind, num |-> num]]
Untracked == Proc(0, "empty", 0)
GitUntracked == [k \in AllFiles |-> Untracked]
\* three files are tracked, with commit times that differ from their mtimes
GitTracked ==
    [GitUntracked EXCEPT ![<<"a.txt">>] = Proc(0, "digits", Ago(40)),
                         ![<<"b.txt">>] = Proc(0, "digits", Ago(40)),
                         ![<<"sub", "old2.txt">>] = Proc(0, "digits", Ago(5)),
                         ![<<".env">>] = Proc(0, "blank", 0)]
\* not a git repository: git exits with 128
GitNotRepo == [k \in AllFiles |-> Proc(128, "empty", 0)]
\* git is not installed: subprocess.run raises
GitMissing == [k \in AllFiles |-> [Untracked EXCEPT !.raised = TRUE]]
\* git prints something that is no number
GitGarbage == [k \in AllFiles |-> Proc(0, "junk", 0)]

GitWorlds == {GitUntracked, GitTracked, GitNotRepo, GitMissing, GitGarbage}

\* how the caller spells the root and the exclusions, and the threshold
Invocations ==
    { [directory |-> <<"d">>, exclude |-> Defaults, days |-> DefaultDays],
      [directory |-> <<".", "d">>,
       exclude |-> Defaults \cup { <<".", "a.txt">>, <<"sub", "..", "sub", "old2.txt">> },
       days |-> DefaultDays],
      [directory |-> <<"d">>, exclude |-> {}, days |-> 5] }

AgeSources == {"mtime", "atime", "ctime", "git"}

NoSummary == [printed |-> FALSE, considered |-> 0, removed |-> 0, excluded |-> 0]
NoPrev == [cutoff |-> 0, would |-> {}]

Init ==
    /\ \E inv \in Invocations :
          /\ directory = inv.directory
          /\ exclude_filenames = inv.exclude
          /\ days = inv.days
    /\ dry_run \in BOOLEAN
    /\ recursive \in BOOLEAN
    /\ include_hidden \in BOOLEAN
    /\ age_source \in AgeSources
    /\ \/ /\ rootOK = TRUE
          /\ \E w \in Worlds :
                /\ exists = w.exists
                /\ stat = w.stat
                /\ mode = w.mode
                /\ order = w.order
       \/ /\ rootOK = FALSE
          /\ exists = {}
          /\ stat = ScenarioStat
          /\ mode = AllRWX
          /\ order = "fwd"
    /\ exists0 = exists
    /\ git \in (IF age_source = "git" THEN GitWorlds ELSE {GitUntracked})
    /\ clock = T0
    /\ ext_removed = {}
    /\ pc = "start"
    /\ now = 0
    /\ cutoff = 0
    /\ excluded = {}
    /\ removed = 0
    /\ considered = 0
    /\ skipped_excluded = 0
    /\ pending = <<>>
    /\ stack = <<>>
    /\ file_path = <<>>
    /\ file_ts = 0
    /\ out_would = {}
    /\ out_removed = {}
    /\ out_failed = {}
    /\ summary = NoSummary
    /\ yielded = {}
    /\ resolved = {}
    /\ run = 1
    /\ prev = NoPrev

(***************************************************************************)
(* Sweep Driver: remove_old_files, one action per step between two calls   *)
(* into the file system.                                                   *)
(***************************************************************************)
\* ExcludedSet without the os.path.normpath of line 84
ExcludedSetRaw(dir, names) == {Join(dir, f) : f \in names}

\* line 84
ExcludedSet(dir, names) == {normpath(Join(dir, f)) : f \in names}

\* Decide with the comparison of line 112 as `<=`
DecideAtCutoff(ts) ==
    IF ts <= cutoff
    THEN IF dry_run THEN "would" ELSE "remove"
    ELSE "keep"

\* Decide without the dry_run test of line 113
DecideNoDryRun(ts) == IF ts < cutoff THEN "remove" ELSE "keep"

\* lines 112 and 113: what is done with a file whose timestamp is ts
Decide(ts) ==
    IF ts < cutoff
    THEN IF dry_run THEN "would" ELSE "remove"
    ELSE "keep"

\* the generator produces p: lines 54 to 57, 65 to 67
Yields(p) == (recursive \/ isfile(p)) /\ ~SkipsHidden(p)

\* lines 81 to 90: the cutoff, the exclusions, and the generator's first step,
\* os.listdir (which raises when the root cannot be listed) or os.walk
StartSweep ==
    /\ pc = "start"
    /\ now' = clock
    /\ cutoff' = clock - days * DAY
    /\ excluded' = ExcludedSet(directory, exclude_filenames)
    /\ IF recursive
       THEN /\ stack' = <<RootDir>>
            /\ pending' = <<>>
            /\ pc' = "iter"
       ELSE /\ stack' = <<>>
            /\ IF CanList(RootDir)
               THEN pending' = listdir_paths /\ pc' = "iter"
               ELSE pending' = <<>> /\ pc' = "aborted"
    /\ UNCHANGED <<removed, considered, skipped_excluded, file_path, file_ts>>
    /\ UNCHANGED <<config, env, output, run, prev>>

\* lines 59 to 63: os.walk lists the next directory, a directory it cannot
\* list is passed over in silence, and hidden directories are pruned
WalkNext ==
    /\ pc = "iter"
    /\ pending = <<>>
    /\ stack # <<>>
    /\ LET top == Head(stack) IN
       IF CanList(top)
       THEN /\ pending' = PathsOf(Filter(Listing, FilesIn(top)))
            /\ stack' = Filter(Listing, PrunedDirs(DirsIn(top))) \o Tail(stack)
       ELSE /\ pending' = <<>>
            /\ stack' = Tail(stack)
    /\ UNCHANGED <<pc, now, cutoff, excluded, removed, considered,
                   skipped_excluded, file_path, file_ts>>
    /\ UNCHANGED <<config, env, output, run, prev>>

\* lines 54 to 56, 65 and 66: an entry the generator does not produce
IterSkip ==
    /\ pc = "iter"
    /\ pending # <<>>
    /\ ~Yields(Head(pending))
    /\ pending' = Tail(pending)
    /\ UNCHANGED <<pc, now, cutoff, excluded, removed, considered,
                   skipped_excluded, stack, file_path, file_ts>>
    /\ UNCHANGED <<config, env, output, run, prev>>

\* IterExcluded with `considered += 1` placed after the exclusion test
IterExcludedUncounted ==
    /\ pc = "iter"
    /\ pending # <<>>
    /\ LET p == Head(pending) IN
       /\ Yields(p)
       /\ normpath(p) \in excluded
       /\ yielded' = yielded \cup {p}
    /\ pending' = Tail(pending)
    /\ skipped_excluded' = skipped_excluded + 1
    /\ UNCHANGED <<pc, now, cutoff, excluded, removed, considered, stack,
                   file_path, file_ts>>
    /\ UNCHANGED <<out_would, out_removed, out_failed, summary, resolved>>
    /\ UNCHANGED <<config, env, run, prev>>

\* lines 90 to 96: a produced path that is excluded
IterExcluded ==
    /\ pc = "iter"
    /\ pending # <<>>
    /\ LET p == Head(pending) IN
       /\ Yields(p)
       /\ normpath(p) \in excluded
       /\ yielded' = yielded \cup {p}
    /\ pending' = Tail(pending)
    /\ considered' = considered + 1
    /\ skipped_excluded' = skipped_excluded + 1
    /\ UNCHANGED <<pc, now, cutoff, excluded, removed, stack, file_path, file_ts>>
    /\ UNCHANGED <<out_would, out_removed, out_failed, summary, resolved>>
    /\ UNCHANGED <<config, env, run, prev>>

\* lines 90 to 92: a produced path that goes on to timestamp resolution
IterCandidate ==
    /\ pc = "iter"
    /\ pending # <<>>
    /\ LET p == Head(pending) IN
       /\ Yields(p)
       /\ normpath(p) \notin excluded
       /\ yielded' = yielded \cup {p}
       /\ file_path' = p
    /\ pending' = Tail(pending)
    /\ considered' = considered + 1
    /\ pc' = "resolve"
    /\ UNCHANGED <<now, cutoff, excluded, removed, skipped_excluded, stack, file_ts>>
    /\ UNCHANGED <<out_would, out_removed, out_failed, summary, resolved>>
    /\ UNCHANGED <<config, env, run, prev>>

\* lines 98 to 115: get_timestamp; FileNotFoundError skips the file, any other
\* exception leaves remove_old_files; then the comparison with the cutoff
Resolve ==
    /\ pc = "resolve"
    /\ LET r == get_timestamp(file_path, age_source) IN
       /\ resolved' = resolved \cup
              {[path |-> file_path, present |-> KeyOf(file_path) \in exists,
                result |-> r]}
       /\ IF r.kind = "FileNotFoundError"
          THEN /\ pc' = "iter"
               /\ UNCHANGED <<file_ts, removed, out_would>>
          ELSE IF r.kind # "ts"
          THEN /\ pc' = "aborted"
               /\ UNCHANGED <<file_ts, removed, out_would>>
          ELSE /\ file_ts' = r.ts
               /\ IF Decide(r.ts) = "would"
                  THEN /\ out_would' = out_would \cup {file_path}
                       /\ removed' = removed + 1
                       /\ pc' = "iter"
                  ELSE IF Decide(r.ts) = "remove"
                  THEN /\ pc' = "remove"
                       /\ UNCHANGED <<removed, out_would>>
                  ELSE /\ pc' = "iter"
                       /\ UNCHANGED <<removed, out_would>>
    /\ UNCHANGED <<now, cutoff, excluded, considered, skipped_excluded, pending,
                   stack, file_path>>
    /\ UNCHANGED <<out_removed, out_failed, summary, yielded>>
    /\ UNCHANGED <<config, env, run, prev>>

\* os.remove(p) succeeds: the path can be searched, the file is there and its
\* directory can be written
CanRemove(p) ==
    /\ isfile(p)
    /\ HasBit(Parent(KeyOf(p)), "w")

\* Remove with `removed += 1` placed after the try statement
RemoveCountingFailures ==
    /\ pc = "remove"
    /\ IF CanRemove(file_path)
       THEN /\ exists' = exists \ {KeyOf(file_path)}
            /\ out_removed' = out_removed \cup {file_path}
            /\ UNCHANGED out_failed
       ELSE /\ out_failed' = out_failed \cup {file_path}
            /\ UNCHANGED <<exists, out_removed>>
    /\ removed' = removed + 1
    /\ pc' = "iter"
    /\ UNCHANGED <<now, cutoff, excluded, considered, skipped_excluded, pending,
                   stack, file_path, file_ts>>
    /\ UNCHANGED <<out_would, summary, yielded, resolved>>
    /\ UNCHANGED <<rootOK, exists0, stat, git, mode, order, clock, ext_removed>>
    /\ UNCHANGED <<config, run, prev>>

\* lines 117 to 122: os.remove, counted when it succeeds, reported when not
Remove ==
    /\ pc = "remove"
    /\ IF CanRemove(file_path)
       THEN /\ exists' = exists \ {KeyOf(file_path)}
            /\ out_removed' = out_removed \cup {file_path}
            /\ removed' = removed + 1
            /\ UNCHANGED out_failed
       ELSE /\ out_failed' = out_failed \cup {file_path}
            /\ UNCHANGED <<exists, out_removed, removed>>
    /\ pc' = "iter"
    /\ UNCHANGED <<now, cutoff, excluded, considered, skipped_excluded, pending,
                   stack, file_path, file_ts>>
    /\ UNCHANGED <<out_would, summary, yielded, resolved>>
    /\ UNCHANGED <<rootOK, exists0, stat, git, mode, order, clock, ext_removed>>
    /\ UNCHANGED <<config, run, prev>>

\* lines 124 to 127: the generator is exhausted and the summary is printed
Summary ==
    /\ pc = "iter"
    /\ pending = <<>>
    /\ stack = <<>>
    /\ summary' = [printed |-> TRUE, considered |-> considered,
                   removed |-> removed, excluded |-> skipped_excluded]
    /\ pc' = "done"
    /\ UNCHANGED <<now, cutoff, excluded, removed, considered, skipped_excluded,
                   pending, stack, file_path, file_ts>>
    /\ UNCHANGED <<out_would, out_removed, out_failed, yielded, resolved>>
    /\ UNCHANGED <<config, env, run, prev>>

(***************************************************************************)
(* The environment: another process removes a file while the sweep runs,   *)
(* and the user runs the program again later.                              *)
(***************************************************************************)
Running == pc \in {"iter", "resolve", "remove"}

ExternalRemove ==
    /\ Running
    /\ Cardinality(ext_removed) < MaxExternal
    /\ \E k \in exists :
          /\ exists' = exists \ {k}
          /\ ext_removed' = ext_removed \cup {k}
    /\ UNCHANGED <<rootOK, exists0, stat, git, mode, order, clock>>
    /\ UNCHANGED <<config, locals, output, run, prev>>

\* the same invocation again: line 81 reads the clock anew
Rerun ==
    /\ pc = "done"
    /\ run < MaxRuns
    /\ run' = run + 1
    /\ prev' = [cutoff |-> cutoff, would |-> out_would]
    /\ \E tick \in 0..MaxTick : clock' = clock + tick
    /\ pc' = "start"
    /\ removed' = 0
    /\ considered' = 0
    /\ skipped_excluded' = 0
    /\ pending' = <<>>
    /\ stack' = <<>>
    /\ out_would' = {}
    /\ out_removed' = {}
    /\ out_failed' = {}
    /\ summary' = NoSummary
    /\ yielded' = {}
    /\ resolved' = {}
    /\ UNCHANGED <<now, cutoff, excluded, file_path, file_ts>>
    /\ UNCHANGED <<rootOK, exists0, exists, stat, git, mode, order, ext_removed>>
    /\ UNCHANGED config

\* the steps of one sweep
Sweep ==
    \/ StartSweep
    \/ WalkNext
    \/ IterSkip
    \/ IterExcluded
    \/ IterCandidate
    \/ Resolve
    \/ Remove
    \/ Summary

\* one sweep of a directory that another process may remove files from
Next ==
    \/ Sweep
    \/ ExternalRemove

Spec == Init /\ [][Next]_vars

\* the sweep run again and again over a directory nobody else touches
NextAgain ==
    \/ Sweep
    \/ Rerun

SpecAgain == Init /\ [][NextAgain]_vars

(***************************************************************************)
(* Vocabulary of the properties.                                           *)
(***************************************************************************)
\* the path the program uses for the file with key k
PathOf(k) == Join(directory, k)

\* the files the program itself has deleted
SweptAway == exists0 \ (exists \cup ext_removed)

\* k is the file at root/f for an excluded filename f
KeyExcluded(k) == \E f \in exclude_filenames : normpath(f) = k

\* the timestamp the age source gives file k for as long as it is there
TsWhilePresent(k) ==
    LET commit == git[k].stdout IN
    IF /\ age_source = "git"
       /\ ~git[k].raised
       /\ git[k].returncode = 0
       /\ commit.kind = "digits"
    THEN commit.num
    ELSE IF age_source = "atime" THEN stat[k].atime
    ELSE IF age_source = "ctime" THEN stat[k].ctime
    ELSE stat[k].mtime

\* some segment of the key starts with a dot
HasDotSegment(k) == \E i \in 1..Len(k) : k[i] \in DotNames

\* a produced file whose timestamp lies between the previous cutoff and this one
CrossedCutoff ==
    \E p \in yielded :
        /\ prev.cutoff <= TsWhilePresent(KeyOf(p))
        /\ TsWhilePresent(KeyOf(p)) < cutoff

\* the git lookup yields a commit timestamp
LookupFound(proc) ==
    ~proc.raised /\ proc.returncode = 0 /\ proc.stdout.kind = "digits"

SeqToSet(q) == {q[i] : i \in 1..Len(q)}

(***************************************************************************)
(* C1.  As claimed: after a sweep that is no dry run has completed, every  *)
(* file under the root that is older than the cutoff and not excluded is   *)
(* gone, and every file that is not older than the cutoff is still there;  *)
(* stated for the sweeps during which no other process removed a file.     *)
(***************************************************************************)
C1_EveryOldFileGone ==
    (pc = "done" /\ ~dry_run /\ ext_removed = {}) =>
        \A k \in exists0 :
            /\ (TsWhilePresent(k) < cutoff /\ ~KeyExcluded(k)) => k \notin exists
            /\ TsWhilePresent(k) >= cutoff => k \in exists

(***************************************************************************)
(* C1, amended.  After a sweep that is no dry run has completed, every     *)
(* file the enumerator produced that is older than the cutoff, not         *)
(* excluded and whose removal was not reported as failed is gone, and      *)
(* every file that is not older than the cutoff is still there (unless     *)
(* another process removed it).                                            *)
(***************************************************************************)
C1_ProducedOldFilesGone ==
    (pc = "done" /\ ~dry_run) =>
        \A k \in exists0 :
            /\ ( /\ PathOf(k) \in yielded
                 /\ TsWhilePresent(k) < cutoff
                 /\ ~KeyExcluded(k)
                 /\ PathOf(k) \notin out_failed ) => k \notin exists
            /\ (TsWhilePresent(k) >= cutoff /\ k \notin ext_removed) => k \in exists

\* a completed sweep that removed a file, kept a file it found too recent,
\* and left an old file it never produced
C1_Witness ==
    /\ pc = "done" /\ ~dry_run
    /\ out_removed # {}
    /\ \E k \in exists :
          /\ PathOf(k) \in yielded /\ ~KeyExcluded(k)
          /\ TsWhilePresent(k) >= cutoff
    /\ \E k \in exists :
          /\ PathOf(k) \notin yielded /\ ~KeyExcluded(k)
          /\ TsWhilePresent(k) < cutoff

(***************************************************************************)
(* C3.  For every excluded filename f the file at root/f is never deleted  *)
(* by the sweep, whatever its age and whatever dry_run, recursive,         *)
(* include_hidden and age_source are; it is excluded before its timestamp  *)
(* is resolved and before any removal, so it is never resolved, never      *)
(* reported as (would be) removed and never handed to os.remove.           *)
(***************************************************************************)
C3_ExcludedNeverDeleted ==
    /\ \A k \in SweptAway : ~KeyExcluded(k)
    /\ \A r \in resolved : ~KeyExcluded(KeyOf(r.path))
    /\ \A p \in out_would \cup out_removed \cup out_failed : ~KeyExcluded(KeyOf(p))
    /\ pc \in {"resolve", "remove"} => ~KeyExcluded(KeyOf(file_path))

\* a completed recursive sweep that removed files and passed over an old
\* file in a subdirectory, excluded under a name that needs normalising
C3_Witness ==
    /\ pc = "done" /\ ~dry_run /\ recursive
    /\ out_removed # {}
    /\ <<"sub", "..", "sub", "old2.txt">> \in exclude_filenames
    /\ PathOf(<<"sub", "old2.txt">>) \in yielded
    /\ TsWhilePresent(<<"sub", "old2.txt">>) < cutoff
    /\ <<"sub", "old2.txt">> \in exists
    /\ summary.excluded >= 3

(***************************************************************************)
(* C2.  As claimed: a dry run never deletes a file, so the files present   *)
(* are those present at the start; every produced, non-excluded candidate  *)
(* older than the cutoff is reported as "Would remove" and counted in      *)
(* removed; and a second dry run over the same, untouched directory        *)
(* reports the same "Would remove" set as the first.                       *)
(***************************************************************************)
C2_DryRunRepeatable ==
    dry_run =>
        /\ exists = exists0
        /\ removed = Cardinality(out_would)
        /\ pc = "done" =>
              \A p \in yielded :
                  (~KeyExcluded(KeyOf(p)) /\ TsWhilePresent(KeyOf(p)) < cutoff)
                      <=> p \in out_would
        /\ (pc = "done" /\ run > 1) => out_would = prev.would

(***************************************************************************)
(* C2, amended.  A dry run never deletes a file; every produced,           *)
(* non-excluded candidate older than the cutoff is reported as "Would      *)
(* remove" and counted in removed; and a second dry run over the same,     *)
(* untouched directory reports the same "Would remove" set as the first    *)
(* provided no produced file's timestamp lies between the cutoffs of the   *)
(* two runs (each run computes its cutoff from the clock it reads).        *)
(***************************************************************************)
C2_DryRunRepeatableSameCutoff ==
    dry_run =>
        /\ exists = exists0
        /\ removed = Cardinality(out_would)
        /\ pc = "done" =>
              \A p \in yielded :
                  (~KeyExcluded(KeyOf(p)) /\ TsWhilePresent(KeyOf(p)) < cutoff)
                      <=> p \in out_would
        /\ (pc = "done" /\ run > 1 /\ ~CrossedCutoff) => out_would = prev.would

\* a second dry run, started later than the first, that reported the same
\* non-empty set and passed over a file it found too recent
C2_Witness ==
    /\ dry_run /\ pc = "done" /\ run = 2
    /\ cutoff > prev.cutoff
    /\ out_would # {} /\ out_would = prev.would
    /\ removed = Cardinality(out_would)
    /\ \E p \in yielded : ~KeyExcluded(KeyOf(p)) /\ p \notin out_would
    /\ exists = exists0

(***************************************************************************)
(* C4.  When the sweep is not recursive the enumerator produces only       *)
(* regular files that are direct children of the root: no file of a        *)
(* subdirectory is counted, has its timestamp resolved, is reported or is  *)
(* deleted, whatever its age, and no directory is descended into.          *)
(***************************************************************************)
C4_NonRecursiveStaysAtRoot ==
    ~recursive =>
        /\ \A p \in yielded : Len(KeyOf(p)) = 1 /\ KeyOf(p) \in exists0
        /\ considered = Cardinality(yielded)
        /\ \A r \in resolved : Len(KeyOf(r.path)) = 1
        /\ \A p \in out_would \cup out_removed \cup out_failed : Len(KeyOf(p)) = 1
        /\ \A k \in SweptAway : Len(k) = 1
        /\ stack = <<>>

\* a completed non-recursive sweep that removed a file of the root and left
\* an old, non-excluded file of a subdirectory
C4_Witness ==
    /\ ~recursive /\ ~dry_run /\ pc = "done"
    /\ out_removed # {}
    /\ <<"sub", "old2.txt">> \in exists
    /\ ~KeyExcluded(<<"sub", "old2.txt">>)
    /\ TsWhilePresent(<<"sub", "old2.txt">>) < cutoff

(***************************************************************************)
(* C5.  In a recursive sweep without include_hidden no path with a segment *)
(* (relative to the root) that starts with a dot is produced, resolved or  *)
(* deleted; hidden directories are pruned, so they are never listed; and   *)
(* with sub/.hidden/old.txt and sub/old2.txt both old, old2.txt is removed *)
(* (when its removal does not fail) and old.txt is never considered.       *)
(***************************************************************************)
C5_HiddenNeverConsidered ==
    (recursive /\ ~include_hidden) =>
        /\ \A p \in yielded : ~HasDotSegment(KeyOf(p))
        /\ \A r \in resolved : ~HasDotSegment(KeyOf(r.path))
        /\ \A k \in SweptAway : ~HasDotSegment(k)
        /\ \A i \in 1..Len(stack) : ~HasDotSegment(stack[i])
        /\ \A i \in 1..Len(pending) : ~HasDotSegment(Parent(KeyOf(pending[i])))
        /\ ( /\ pc = "done" /\ ~dry_run
             /\ {<<"sub", "old2.txt">>, <<"sub", ".hidden", "old.txt">>} \subseteq exists0
             /\ ext_removed = {}
             /\ TsWhilePresent(<<"sub", "old2.txt">>) < cutoff
             /\ TsWhilePresent(<<"sub", ".hidden", "old.txt">>) < cutoff
             /\ ~KeyExcluded(<<"sub", "old2.txt">>)
             /\ PathOf(<<"sub", "old2.txt">>) \notin out_failed )
           => /\ <<"sub", "old2.txt">> \notin exists
              /\ <<"sub", ".hidden", "old.txt">> \in exists
              /\ PathOf(<<"sub", ".hidden", "old.txt">>) \notin yielded

\* the example: a completed recursive sweep removed sub/old2.txt and left
\* the equally old sub/.hidden/old.txt
C5_Witness ==
    /\ recursive /\ ~include_hidden /\ ~dry_run /\ pc = "done"
    /\ PathOf(<<"sub", "old2.txt">>) \in out_removed
    /\ <<"sub", "old2.txt">> \notin exists
    /\ <<"sub", ".hidden", "old.txt">> \in exists
    /\ TsWhilePresent(<<"sub", ".hidden", "old.txt">>) < cutoff

(***************************************************************************)
(* C6.  The summary's counters: considered is the number of paths the      *)
(* enumerator produced, excluded the number of those that are excluded,    *)
(* removed the number of non-excluded ones whose timestamp resolved below  *)
(* the cutoff and that were deleted (in a dry run: would be).  A root with *)
(* one old file, one recent file and the two default exclusions, swept     *)
(* non-recursively with days=30 while nobody else touches it, reports      *)
(* considered=4, removed=1, excluded=2.                                    *)
(***************************************************************************)
C6_SummaryCounters ==
    pc = "done" =>
        /\ summary.printed
        /\ summary.considered = Cardinality(yielded)
        /\ summary.excluded = Cardinality({p \in yielded : KeyExcluded(KeyOf(p))})
        /\ summary.removed =
              Cardinality({p \in yielded :
                  /\ ~KeyExcluded(KeyOf(p))
                  /\ \E r \in resolved :
                        r.path = p /\ r.result.kind = "ts" /\ r.result.ts < cutoff
                  /\ dry_run \/ KeyOf(p) \in SweptAway})
        /\ ( /\ exists0 = RootFour
             /\ exclude_filenames = Defaults
             /\ days = DefaultDays
             /\ ~recursive
             /\ ext_removed = {}
             /\ TsWhilePresent(<<"a.txt">>) < cutoff
             /\ TsWhilePresent(<<"b.txt">>) >= cutoff )
           => /\ summary.considered = 4
              /\ summary.removed = 1
              /\ summary.excluded = 2
              /\ ~dry_run => exists = RootFour \ { <<"a.txt">> }

\* the scenario, swept for real: a.txt is gone and the summary reads 4, 1, 2
C6_Witness ==
    /\ pc = "done" /\ ~dry_run /\ ~recursive
    /\ exists0 = RootFour
    /\ exclude_filenames = Defaults
    /\ days = DefaultDays
    /\ exists = RootFour \ { <<"a.txt">> }
    /\ summary = [printed |-> TRUE, considered |-> 4, removed |-> 1, excluded |-> 2]

(***************************************************************************)
(* C7.  With age source git, get_timestamp returns the commit timestamp    *)
(* when the lookup yields one, and otherwise (git raised, exited non-zero, *)
(* printed nothing or printed no number) what os.path.getmtime gives: the  *)
(* modification time, or getmtime's own error for a file that is gone or   *)
(* unreachable.  No error of the lookup itself leaves get_timestamp.       *)
(***************************************************************************)
C7_GitFallsBackToMtime ==
    age_source = "git" =>
        \A r \in resolved :
            LET k == KeyOf(r.path) IN
            /\ r.result.kind # "Exception"
            /\ LookupFound(git[k]) => r.result = Return(git[k].stdout.num)
            /\ ~LookupFound(git[k]) =>
                  IF r.present /\ \A d \in Ancestors(k) : "x" \in mode[d]
                  THEN r.result = Return(stat[k].mtime)
                  ELSE r.result.kind \in {"FileNotFoundError", "PermissionError"}

\* one sweep resolved a tracked file to its commit time, which is not its
\* mtime, and an untracked file to its mtime
C7_Witness ==
    /\ age_source = "git"
    /\ \E r \in resolved :
          /\ LookupFound(git[KeyOf(r.path)])
          /\ r.result.kind = "ts"
          /\ r.result.ts # stat[KeyOf(r.path)].mtime
    /\ \E r \in resolved :
          /\ ~LookupFound(git[KeyOf(r.path)])
          /\ r.result = Return(stat[KeyOf(r.path)].mtime)

(***************************************************************************)
(* C8.  As claimed: once the root has been accepted, no error met while a  *)
(* candidate's timestamp is resolved or the candidate is deleted aborts    *)
(* the sweep; only a root that cannot be listed does.                      *)
(***************************************************************************)
C8_OnlyThePreconditionAborts ==
    pc = "aborted" => ~CanList(RootDir)

(***************************************************************************)
(* C9.  In a sweep that is no dry run, removed counts exactly the files    *)
(* the sweep deleted; a candidate whose deletion failed is reported, is    *)
(* not counted, is not deleted, is not taken up again, and the sweep goes  *)
(* on to the next candidate instead of aborting.                           *)
(***************************************************************************)
C9_FailedRemovalNotCounted ==
    ~dry_run =>
        /\ removed = Cardinality(SweptAway)
        /\ out_removed = {PathOf(k) : k \in SweptAway}
        /\ \A p \in out_failed :
              /\ p \notin out_removed
              /\ p \notin SeqToSet(pending)
              /\ ~(pc \in {"resolve", "remove"} /\ file_path = p)
        /\ \A r \in resolved :
              ( /\ r.result.kind = "ts" /\ r.result.ts < cutoff
                /\ ~(pc = "remove" /\ file_path = r.path)
                /\ KeyOf(r.path) \notin SweptAway ) => r.path \in out_failed
        /\ pc = "aborted" =>
              \/ ~CanList(RootDir)
              \/ \E r \in resolved :
                    r.path = file_path /\ r.result.kind \notin {"ts", "FileNotFoundError"}

\* a completed sweep that deleted a file, failed on one that is still there
\* and failed on one another process had removed in the meantime
C9_Witness ==
    /\ ~dry_run /\ pc = "done"
    /\ out_removed # {}
    /\ \E p \in out_failed : KeyOf(p) \in exists
    /\ \E p \in out_failed : KeyOf(p) \in ext_removed
    /\ removed = Cardinality(out_removed)

(***************************************************************************)
(* C10.  As claimed: a candidate that another process removed between its  *)
(* enumeration and its timestamp resolution is skipped, for every age      *)
(* source: it is not reported as (would be) removed, so not counted in     *)
(* removed, and no deletion is attempted for it.                           *)
(***************************************************************************)
C10_VanishedCandidateSkipped ==
    \A r \in resolved :
        ~r.present =>
            /\ r.path \notin out_would \cup out_removed \cup out_failed
            /\ ~(pc = "remove" /\ file_path = r.path)

=============================================================================
